---- MODULE Spec2Model ----
(***************************************************************************)
(* A model of src/parser.py: the FlatBuffers schema scanner FBSParser and  *)
(* the batch runner generate_all.                                          *)
(*                                                                         *)
(* Text is modelled at the level the scanner's patterns see it.  A line is *)
(* a sequence of lexemes (tokens); a token stands for the piece of text a  *)
(* pattern matches as a unit:                                              *)
(*   docm            the marker "///"                                      *)
(*   bco, bcc        the markers "/*" and "*/"                             *)
(*   txt n           free text n (no brace, no colon, no marker)           *)
(*   ns n            "namespace n;"                                        *)
(*   attr n          "attribute "n";"                                      *)
(*   root n          "root_type n;"                                        *)
(*   enum n a        "enum n : a"      union/struct/table n  "table n"     *)
(*   {  }            one brace                                             *)
(*   field n a b c   "n:a = b (c);"  (b, c = None when the clause is absent)*)
(*   item n a b      one comma-separated piece "n" or "n = b" (a = "=")    *)
(* Python's None is the string None for optional strings, and the empty    *)
(* sequence for an optional integer and for an absent doc.  Cursors are    *)
(* 0-based as in the code: lines[i] of the code is lines[i + 1] here.      *)
(***************************************************************************)
EXTENDS Integers, Sequences, FiniteSets, TLC

VARIABLES
    exists,          \* os.path.exists(self.file_path)
    opened,          \* whether open(self.file_path) has been called
    lines,           \* content.splitlines() of the file at file_path
    i,               \* the cursor of the top-level scan
    current_doc,     \* the pending doc buffer of the top-level scan
    data,            \* self.data, the Document
    pc,              \* "start", "scan", "done" (returned), "error" (raised)
    iters,           \* history: the iterations of the while loop entered so far
    asyncapi_files,  \* generate_all: the input files of the batch
    fidx,            \* generate_all: index of the next file of the loop
    generated_files, \* generate_all: the generated list
    failed,          \* generate_all: the files whose failure was logged
    index_written,   \* generate_all: whether index.html was written
    bpc              \* generate_all: "start", "loop", "done", "returned", "raised"

scanVars == <<exists, opened, lines, i, current_doc, data, pc, iters>>
batchVars == <<asyncapi_files, fidx, generated_files, failed, index_written, bpc>>
vars == <<exists, opened, lines, i, current_doc, data, pc, iters,
          asyncapi_files, fidx, generated_files, failed, index_written, bpc>>

None == "None"

MaxLines == 3

---------------------------------------------------------------------------
(* Tokens and lines *)

Tk(t, n, a, b, c) == [t |-> t, n |-> n, a |-> a, b |-> b, c |-> c]
DocM == Tk("docm", "", "", "", "")
Bco == Tk("bco", "", "", "", "")
Bcc == Tk("bcc", "", "", "", "")
Txt(n) == Tk("txt", n, "", "", "")
Ns(n) == Tk("ns", n, "", "", "")
Attr(n) == Tk("attr", n, "", "", "")
Root(n) == Tk("root", n, "", "", "")
EnumH(n, base) == Tk("enum", n, base, "", "")
UnionH(n) == Tk("union", n, "", "", "")
StructH(n) == Tk("struct", n, "", "", "")
TableH(n) == Tk("table", n, "", "", "")
LB == Tk("{", "", "", "", "")
RB == Tk("}", "", "", "", "")
Fld(n, ty) == Tk("field", n, ty, None, None)
FldDM(n, ty, d, m) == Tk("field", n, ty, d, m)
Item(n) == Tk("item", n, "", "", "")
ItemEq(n, lit) == Tk("item", n, "=", lit, "")

\* F(x), with the argument x evaluated once.
Once(F(_), x) == CHOOSE r \in {F(v) : v \in {x}} : TRUE

RECURSIVE CountTok(_, _)
CountTok(line, t) ==
    IF line = <<>> THEN 0
    ELSE (IF Head(line).t = t THEN 1 ELSE 0) + CountTok(Tail(line), t)

RECURSIVE Flatten(_)
Flatten(ls) == IF ls = <<>> THEN <<>> ELSE Head(ls) \o Flatten(Tail(ls))

\* Python's insertion-ordered dict: a sequence of [k, v] with distinct keys.
Keys(d) == [x \in 1..Len(d) |-> d[x].k]
KeySet(d) == {d[x].k : x \in 1..Len(d)}
DictGet(d, k) == d[CHOOSE x \in 1..Len(d) : d[x].k = k].v
DictSet(d, k, v) ==
    IF k \in KeySet(d)
    THEN [x \in 1..Len(d) |-> IF d[x].k = k THEN [k |-> k, v |-> v] ELSE d[x]]
    ELSE Append(d, [k |-> k, v |-> v])

---------------------------------------------------------------------------
(* FBSParser._collect_block *)

HasTok(line, t) == \E x \in 1..Len(line) : line[x].t = t
FirstTok(line, t) == CHOOSE x \in 1..Len(line) :
    line[x].t = t /\ \A y \in 1..(x - 1) : line[y].t # t
LastTok(line, t) == CHOOSE x \in 1..Len(line) :
    line[x].t = t /\ \A y \in (x + 1)..Len(line) : line[y].t # t

\* lines[j].count("{") - lines[j].count("}")
BraceDelta(line) == CountTok(line, "{") - CountTok(line, "}")

\* The value of the loop variable when the while loop of _collect_block ends:
\* the index of the line on which depth is 0, or len(lines) when the lines run out.
RECURSIVE BlockEnd(_, _, _)
BlockEnd(ls, j, depth) ==
    IF j >= Len(ls) THEN j
    ELSE LET d == depth + BraceDelta(ls[j + 1])
         IN IF d = 0 THEN j ELSE BlockEnd(ls, j + 1, d)

\* re.sub(r"^[^{]*{", "", body, count=1): drop the text through the first "{".
StripOpen(c) ==
    IF \E k \in 1..Len(c) : HasTok(c[k], "{")
    THEN LET k == CHOOSE k \in 1..Len(c) :
                      HasTok(c[k], "{") /\ \A m \in 1..(k - 1) : ~HasTok(c[m], "{")
             p == FirstTok(c[k], "{")
         IN <<SubSeq(c[k], p + 1, Len(c[k]))>> \o SubSeq(c, k + 1, Len(c))
    ELSE c

\* re.sub(r"}[^}]*$", "", body, count=1): drop the text from the last "}" on.
StripClose(c) ==
    IF \E k \in 1..Len(c) : HasTok(c[k], "}")
    THEN LET k == CHOOSE k \in 1..Len(c) :
                      HasTok(c[k], "}") /\ \A m \in (k + 1)..Len(c) : ~HasTok(c[m], "}")
             p == LastTok(c[k], "}")
         IN SubSeq(c, 1, k - 1) \o <<SubSeq(c[k], 1, p - 1)>>
    ELSE c

\* A mutant: the offset returned is one line further, i + 2.
CollectBlockSkipsNext(ls, start_idx) ==
    LET e == BlockEnd(ls, start_idx, 0)
        last == IF e >= Len(ls) THEN Len(ls) ELSE e + 1
        content == SubSeq(ls, start_idx + 1, last)
    IN [body |-> Once(StripClose, Once(StripOpen, content)), offset |-> e + 2]

\* body: the interior as its lines; offset: i + 1.
CollectBlock(ls, start_idx) ==
    LET e == BlockEnd(ls, start_idx, 0)
        last == IF e >= Len(ls) THEN Len(ls) ELSE e + 1
        content == SubSeq(ls, start_idx + 1, last)
    IN [body |-> Once(StripClose, Once(StripOpen, content)), offset |-> e + 1]

---------------------------------------------------------------------------
(* FBSParser._parse_enum_values *)

\* int(v.strip()): the literals that parse as base-10 integers, and their values.
IsInt(lit) == lit \in {"0", "5", "7"}
IntOf(lit) == CASE lit = "0" -> 0 [] lit = "5" -> 5 [] lit = "7" -> 7

\* One comma-separated piece of the body per token.  An enumerator's value is
\* <<n>> for the integer n and <<>> for None.
RECURSIVE EnumFold(_, _)
EnumFold(toks, values) ==
    IF toks = <<>> THEN [err |-> FALSE, values |-> values]
    ELSE LET item == Head(toks)
         IN IF item.a = "="
            THEN IF IsInt(item.b)
                 THEN EnumFold(Tail(toks), DictSet(values, item.n, <<IntOf(item.b)>>))
                 ELSE [err |-> TRUE, values |-> values]
            ELSE EnumFold(Tail(toks), DictSet(values, item.n, <<>>))

ParseEnumValues(body) ==
    LET Fold(toks) == EnumFold(toks, <<>>) IN Once(Fold, Flatten(body))

\* [t.strip() for t in body.split(",") if t.strip()]
UnionTypes(body) == LET toks == Flatten(body) IN [x \in 1..Len(toks) |-> toks[x].n]

---------------------------------------------------------------------------
(* FBSParser._parse_fields *)

IsMarker(tk) == tk.t \in {"bco", "bcc"}
NotMarker(tk) == ~IsMarker(tk)
\* line.strip("/* ").strip("*/").strip(): the text of a line without its markers.
StripMarkers(line) == SelectSeq(line, NotMarker)

LocalTypes(d) == KeySet(d.enums) \cup KeySet(d.structs) \cup KeySet(d.tables)

FieldDef(tk, doc, local_types) ==
    [type |-> tk.a, default |-> tk.b, metadata |-> tk.c, doc |-> doc,
     ref |-> IF tk.a \in local_types THEN tk.a ELSE None]

\* The loop over body.splitlines(); a line is classified by its first token, and
\* re.match takes the field at the start of the line only.
RECURSIVE FieldsFold(_, _, _, _)
FieldsFold(ls, fields, doc, local_types) ==
    IF ls = <<>> THEN fields
    ELSE LET line == Head(ls)
             rest == Tail(ls)
         IN IF line = <<>> THEN FieldsFold(rest, fields, doc, local_types)
            ELSE IF line[1].t = "docm"
            THEN FieldsFold(rest, fields, Append(doc, Tail(line)), local_types)
            ELSE IF line[1].t = "bco"
            THEN FieldsFold(rest, fields,
                            IF StripMarkers(line) # <<>>
                            THEN Append(doc, StripMarkers(line)) ELSE doc,
                            local_types)
            ELSE IF line[1].t = "}" THEN FieldsFold(rest, fields, doc, local_types)
            ELSE IF line[1].t = "field"
            THEN FieldsFold(rest,
                            DictSet(fields, line[1].n, FieldDef(line[1], doc, local_types)),
                            <<>>, local_types)
            ELSE FieldsFold(rest, fields, doc, local_types)

ParseFields(body, d) ==
    LET Fold(b) == FieldsFold(b, <<>>, <<>>, LocalTypes(d)) IN Once(Fold, body)

---------------------------------------------------------------------------
(* FBSParser.__init__ and FBSParser._parse_file *)

\* self.data as FBSParser.__init__ builds it.
EmptyData ==
    [namespace |-> None, attributes |-> <<>>, enums |-> <<>>, unions |-> <<>>,
     structs |-> <<>>, tables |-> <<>>, root_type |-> None]

\* Which branch of the while loop takes the (stripped) line.
Class(line) ==
    IF line = <<>> THEN "skip"
    ELSE IF line[1].t = "docm" THEN "doc"
    ELSE IF line[1].t = "bco" THEN "comment"
    ELSE IF line[1].t = "ns" THEN "namespace"
    ELSE IF line[1].t = "attr" THEN "attribute"
    ELSE IF line[1].t \in {"enum", "union", "struct", "table"}
            /\ Len(line) >= 2 /\ line[2].t = "{" THEN line[1].t
    ELSE IF line[1].t = "root" THEN "root_type"
    ELSE "skip"

\* lines[j].strip().endswith("*/")
EndsClose(line) == line # <<>> /\ line[Len(line)].t = "bcc"

\* The index at which the inner while loop of the block-comment branch stops;
\* len(lines) when lines[i] is read past the end (IndexError).
RECURSIVE CommentEnd(_, _)
CommentEnd(ls, j) ==
    IF j >= Len(ls) THEN j
    ELSE IF EndsClose(ls[j + 1]) THEN j ELSE CommentEnd(ls, j + 1)

RECURSIVE NonEmpty(_)
NonEmpty(block) ==
    IF block = <<>> THEN <<>>
    ELSE (IF Head(block) # <<>> THEN <<Head(block)>> ELSE <<>>) \o NonEmpty(Tail(block))

\* The state of one scan: s.i, s.current_doc, s.data, s.pc.
DoDoc(ls, s) ==
    [s EXCEPT !.current_doc = Append(@, Tail(ls[s.i + 1])), !.i = @ + 1]

DoBlockComment(ls, s) ==
    LET e == CommentEnd(ls, s.i)
        block == [x \in 1..(e - s.i + 1) |-> StripMarkers(ls[s.i + x])]
    IN IF e >= Len(ls) THEN [s EXCEPT !.i = e, !.pc = "error"]
       ELSE [s EXCEPT !.current_doc = @ \o NonEmpty(block), !.i = e + 1]

DoNamespace(ls, s) ==
    [s EXCEPT !.data.namespace = ls[s.i + 1][1].n, !.i = @ + 1]

DoAttribute(ls, s) ==
    [s EXCEPT !.data.attributes = Append(@, ls[s.i + 1][1].n), !.i = @ + 1]

DoEnum(ls, s) ==
    LET h == ls[s.i + 1][1]
        blk == CollectBlock(ls, s.i)
        ev == ParseEnumValues(blk.body)
    IN IF ev.err THEN [s EXCEPT !.pc = "error"]
       ELSE [s EXCEPT !.data.enums = DictSet(@, h.n,
                          [base_type |-> h.a, values |-> ev.values, doc |-> s.current_doc]),
                      !.current_doc = <<>>, !.i = blk.offset]

DoUnion(ls, s) ==
    LET h == ls[s.i + 1][1]
        blk == CollectBlock(ls, s.i)
    IN [s EXCEPT !.data.unions = DictSet(@, h.n,
                     [types |-> UnionTypes(blk.body), doc |-> s.current_doc]),
                 !.current_doc = <<>>, !.i = blk.offset]

DoStruct(ls, s) ==
    LET h == ls[s.i + 1][1]
        blk == CollectBlock(ls, s.i)
    IN [s EXCEPT !.data.structs = DictSet(@, h.n,
                     [fields |-> ParseFields(blk.body, s.data), doc |-> s.current_doc]),
                 !.current_doc = <<>>, !.i = blk.offset]

\* A mutant: a table name already stored keeps its first entry.
DoTableFirstWins(ls, s) ==
    LET h == ls[s.i + 1][1]
        blk == CollectBlock(ls, s.i)
    IN IF h.n \in KeySet(s.data.tables)
       THEN [s EXCEPT !.current_doc = <<>>, !.i = blk.offset]
       ELSE [s EXCEPT !.data.tables = DictSet(@, h.n,
                          [fields |-> ParseFields(blk.body, s.data), doc |-> s.current_doc]),
                      !.current_doc = <<>>, !.i = blk.offset]

DoTable(ls, s) ==
    LET h == ls[s.i + 1][1]
        blk == CollectBlock(ls, s.i)
    IN [s EXCEPT !.data.tables = DictSet(@, h.n,
                     [fields |-> ParseFields(blk.body, s.data), doc |-> s.current_doc]),
                 !.current_doc = <<>>, !.i = blk.offset]

DoRootType(ls, s) ==
    [s EXCEPT !.data.root_type = ls[s.i + 1][1].n, !.i = @ + 1]

\* A mutant: the fall-through branch leaves the cursor where it is.
DoSkipStuck(ls, s) == s

DoSkip(ls, s) == [s EXCEPT !.i = @ + 1]

\* One iteration of the while loop.
Step(ls, s) ==
    LET c == Class(ls[s.i + 1])
    IN CASE c = "doc" -> DoDoc(ls, s)
         [] c = "comment" -> DoBlockComment(ls, s)
         [] c = "namespace" -> DoNamespace(ls, s)
         [] c = "attribute" -> DoAttribute(ls, s)
         [] c = "enum" -> DoEnum(ls, s)
         [] c = "union" -> DoUnion(ls, s)
         [] c = "struct" -> DoStruct(ls, s)
         [] c = "table" -> DoTable(ls, s)
         [] c = "root_type" -> DoRootType(ls, s)
         [] OTHER -> DoSkip(ls, s)

\* The while loop run to its end: s.pc is "done" or "error".
RECURSIVE RunScan(_, _)
RunScan(ls, s) ==
    IF s.pc # "scan" THEN s
    ELSE IF s.i >= Len(ls) THEN [s EXCEPT !.pc = "done"]
    ELSE RunScan(ls, Step(ls, s))

ScanStart == [i |-> 0, current_doc |-> <<>>, data |-> EmptyData, pc |-> "scan"]

\* FBSParser(path) on an existing file with these lines: the final scan state.
ParseExisting(ls) == RunScan(ls, ScanStart)

---------------------------------------------------------------------------
(* The schema files the scan is run on: every file of at most MaxLines     *)
(* lines over one of five sets of lines.                                   *)

Block(h, inner) == <<h, LB>> \o inner \o <<RB>>

EnumABC == Block(EnumH("Bar", "int"), <<Item("A"), ItemEq("B", "5"), Item("C")>>)
EnumCA == Block(EnumH("Bar", "int"), <<Item("C"), ItemEq("A", "7")>>)
EnumBad == Block(EnumH("Bar", "int"), <<ItemEq("A", "x")>>)
TableBarX == Block(TableH("Bar"), <<Fld("x", "int")>>)
TableFooX == Block(TableH("Foo"), <<Fld("x", "int")>>)
StructBarX == Block(StructH("Bar"), <<Fld("x", "int")>>)

\* Redeclarations in every category.
DeclLines ==
    { EnumABC, EnumCA,
      Block(UnionH("Bar"), <<Item("Foo"), Item("Bar")>>),
      Block(UnionH("Bar"), <<Item("Bar")>>),
      StructBarX, Block(StructH("Bar"), <<Fld("ys", "[int]")>>),
      TableBarX, Block(TableH("Bar"), <<Fld("a", "Foo")>>),
      <<Ns("a")>>, <<Ns("b")>>, <<Attr("x")>>, <<Attr("y")>>,
      <<Root("Foo")>>, <<Root("Bar")>> }

\* Fields that name local types, vectors and builtins.
RefLines ==
    { Block(TableH("Foo"), <<Fld("a", "Bar")>>),
      Block(TableH("Foo"), <<Fld("xs", "[Bar]")>>),
      TableFooX,
      Block(TableH("Foo"), <<Fld("ys", "[int]")>>),
      TableBarX, StructBarX, EnumABC,
      Block(TableH("int"), <<Fld("x", "int")>>),
      Block(StructH("Foo"), <<Fld("a", "Bar")>>) }

\* Doc comments, block comments and the lines between them and a declaration.
DocLines ==
    { <<DocM, Txt("d1")>>, <<DocM, Txt("d2")>>,
      <<Bco, Txt("c1"), Bcc>>, <<Bco, Txt("c2")>>, <<Txt("c3"), Bcc>>,
      <<Ns("a")>>, <<Attr("x")>>, <<Root("Bar")>>, <<Txt("foo")>>, <<>>,
      TableBarX, EnumABC }

\* Blocks over several lines, well-formed or not.
BlockLines ==
    { <<TableH("Foo"), LB>>, <<StructH("Bar"), LB>>,
      <<Fld("x", "int")>>, <<Fld("a", "Bar"), Fld("b", "int")>>,
      <<FldDM("id", "int", "7", "deprecated")>>,
      <<RB>>, TableFooX \o <<RB>>, TableBarX,
      <<DocM, Txt("d1")>>, <<Bco, Txt("c2")>>, <<Txt("c3"), Bcc>>,
      EnumBad }

\* Lines inside a block: a block comment opened on the header line and closed
\* on the line of the closing brace, a comment line that reads like a field,
\* and braces nested two deep.
InsideLines ==
    { <<TableH("Foo"), LB, Bco, Txt("c2")>>,
      <<Fld("note", "text")>>,
      <<Txt("c3"), Bcc, RB>>,
      <<TableH("Foo"), LB>>, <<StructH("Bar"), LB>>,
      <<RB, RB>>, StructBarX \o <<RB>>,
      <<Root("Foo")>> }

SeqsUpTo(A, n) == UNION {[1..k -> A] : k \in 0..n}

Files ==
    SeqsUpTo(DeclLines, MaxLines) \cup SeqsUpTo(RefLines, MaxLines)
    \cup SeqsUpTo(DocLines, MaxLines) \cup SeqsUpTo(BlockLines, MaxLines)
    \cup SeqsUpTo(InsideLines, MaxLines)

---------------------------------------------------------------------------
(* FBSParser(file_path) as a state machine *)

St == [i |-> i, current_doc |-> current_doc, data |-> data, pc |-> pc]

SetScan(s) ==
    /\ i' = s.i
    /\ current_doc' = s.current_doc
    /\ data' = s.data
    /\ pc' = s.pc
    /\ iters' = iters + 1
    /\ UNCHANGED <<exists, opened, lines>>
    /\ UNCHANGED batchVars

AtLine(c) == pc = "scan" /\ i < Len(lines) /\ Class(lines[i + 1]) = c

BatchIdle ==
    /\ asyncapi_files = <<>>
    /\ fidx = 0
    /\ generated_files = <<>>
    /\ failed = <<>>
    /\ index_written = FALSE
    /\ bpc = "idle"

Init ==
    /\ exists \in BOOLEAN
    /\ lines \in (IF exists THEN Files ELSE {<<>>})
    /\ opened = FALSE
    /\ i = 0
    /\ current_doc = <<>>
    /\ data = EmptyData
    /\ pc = "start"
    /\ iters = 0
    /\ BatchIdle

\* A mutant: no return after the warning, so open() is called and raises.
ParseMissingFallsThrough ==
    /\ pc = "start" /\ ~exists
    /\ opened' = TRUE
    /\ pc' = "error"
    /\ UNCHANGED <<exists, lines, i, current_doc, data, iters>>
    /\ UNCHANGED batchVars

\* if not os.path.exists(self.file_path): warn and return
ParseMissing ==
    /\ pc = "start" /\ ~exists
    /\ pc' = "done"
    /\ UNCHANGED <<exists, opened, lines, i, current_doc, data, iters>>
    /\ UNCHANGED batchVars

\* open, read, splitlines; current_doc = [], i = 0
OpenFile ==
    /\ pc = "start" /\ exists
    /\ opened' = TRUE
    /\ i' = 0 /\ current_doc' = <<>> /\ pc' = "scan"
    /\ UNCHANGED <<exists, lines, data, iters>>
    /\ UNCHANGED batchVars

DocLine == AtLine("doc") /\ SetScan(DoDoc(lines, St))

BlockComment ==
    /\ AtLine("comment") /\ CommentEnd(lines, i) < Len(lines)
    /\ SetScan(DoBlockComment(lines, St))

BlockCommentUnterminated ==
    /\ AtLine("comment") /\ CommentEnd(lines, i) >= Len(lines)
    /\ SetScan(DoBlockComment(lines, St))

NamespaceLine == AtLine("namespace") /\ SetScan(DoNamespace(lines, St))

AttributeLine == AtLine("attribute") /\ SetScan(DoAttribute(lines, St))

EnumDecl ==
    /\ AtLine("enum") /\ ~ParseEnumValues(CollectBlock(lines, i).body).err
    /\ SetScan(DoEnum(lines, St))

EnumDeclValueError ==
    /\ AtLine("enum") /\ ParseEnumValues(CollectBlock(lines, i).body).err
    /\ SetScan(DoEnum(lines, St))

UnionDecl == AtLine("union") /\ SetScan(DoUnion(lines, St))

StructDecl == AtLine("struct") /\ SetScan(DoStruct(lines, St))

TableDecl == AtLine("table") /\ SetScan(DoTable(lines, St))

RootTypeLine == AtLine("root_type") /\ SetScan(DoRootType(lines, St))

SkipLine == AtLine("skip") /\ SetScan(DoSkip(lines, St))

\* while i < len(lines) is false: _parse_file returns
Finish ==
    /\ pc = "scan" /\ i >= Len(lines)
    /\ pc' = "done"
    /\ UNCHANGED <<exists, opened, lines, i, current_doc, data, iters>>
    /\ UNCHANGED batchVars

Next ==
    \/ ParseMissing
    \/ OpenFile
    \/ DocLine
    \/ BlockComment
    \/ BlockCommentUnterminated
    \/ NamespaceLine
    \/ AttributeLine
    \/ EnumDecl
    \/ EnumDeclValueError
    \/ UnionDecl
    \/ StructDecl
    \/ TableDecl
    \/ RootTypeLine
    \/ SkipLine
    \/ Finish

Spec == Init /\ [][Next]_vars

\* The files on which the end of the parse is checked: a line for every
\* branch of the loop, comments and blocks that close, and ones that do not.
PlainLines ==
    { <<DocM, Txt("d1")>>, <<Bco, Txt("c2")>>, <<Txt("c3"), Bcc>>,
      <<Ns("a")>>, <<Attr("x")>>, <<Root("Bar")>>, TableBarX }

NestedLines ==
    { EnumABC, EnumBad, Block(UnionH("Bar"), <<Item("Bar")>>),
      <<StructH("Bar"), LB>>, <<Fld("x", "int")>>, <<RB>>, TableFooX \o <<RB>> }

LiveFiles == SeqsUpTo(PlainLines, MaxLines) \cup SeqsUpTo(NestedLines, MaxLines)

InitLive ==
    /\ exists \in BOOLEAN
    /\ lines \in (IF exists THEN LiveFiles ELSE {<<>>})
    /\ opened = FALSE
    /\ i = 0
    /\ current_doc = <<>>
    /\ data = EmptyData
    /\ pc = "start"
    /\ iters = 0
    /\ BatchIdle

\* The parse is one sequential call: whenever a step is possible one is taken.
SpecLive == InitLive /\ [][Next]_vars /\ WF_vars(Next)

---------------------------------------------------------------------------
(* Vocabulary of the properties *)

\* FLATBUFFERS_BUILTINS
FLATBUFFERS_BUILTINS ==
    { "bool", "byte", "ubyte", "short", "ushort", "int", "uint",
      "float", "double", "long", "ulong",
      "int8", "uint8", "int16", "uint16", "int32", "uint32", "int64", "uint64",
      "float32", "float64", "string" }

DeclClasses == {"enum", "union", "struct", "table"}

\* The step taken is the parse of an enum/union/struct/table declaration.
DeclStep == EnumDecl \/ UnionDecl \/ StructDecl \/ TableDecl

\* The name declared by the header at the cursor.
HeaderName == lines[i + 1][1].n

\* The cursor values at which the scan of ls classifies a line.
RECURSIVE Visited(_, _)
Visited(ls, s) ==
    IF s.pc # "scan" \/ s.i >= Len(ls) THEN {}
    ELSE {s.i} \cup Visited(ls, Step(ls, s))

TopLevel(ls) == Visited(ls, ScanStart)

\* The lines of class c among the top-level lines top, as cursor values.
TopOf(top, ls, c) == {j \in top : Class(ls[j + 1]) = c}

\* Every field definition of a Document.
FieldMaps(d) ==
    {d.structs[x].v.fields : x \in 1..Len(d.structs)}
    \cup {d.tables[x].v.fields : x \in 1..Len(d.tables)}
AllFields(d) == UNION {{fm[y].v : y \in 1..Len(fm)} : fm \in FieldMaps(d)}

\* A vector-bracketed type and its element type.
IsVector(ty) == ty \in {"[Bar]", "[Foo]", "[int]"}
ElemType(ty) ==
    CASE ty = "[Bar]" -> "Bar" [] ty = "[Foo]" -> "Foo" [] ty = "[int]" -> "int"
      [] OTHER -> ty

\* The auto-increment rule: an explicit value is kept, a missing one is one
\* more than the value before it, 0 for the first.
RECURSIVE AutoIncrement(_, _, _)
AutoIncrement(toks, nxt, values) ==
    IF toks = <<>> THEN values
    ELSE LET item == Head(toks)
             val == IF item.a = "=" THEN IntOf(item.b) ELSE nxt
         IN AutoIncrement(Tail(toks), val + 1, DictSet(values, item.n, <<val>>))

---------------------------------------------------------------------------
(* C1 .. C7 *)

\* C1: after an enum is parsed every enumerator maps to an integer: the value
\* written with "= n", else one more than the value before it, else 0; none
\* is stored as None.
C1_EnumAutoIncrement ==
    [][EnumDecl =>
        LET e == DictGet(data'.enums, HeaderName)
        IN /\ \A y \in 1..Len(e.values) : e.values[y].v # <<>>
           /\ e.values = AutoIncrement(Flatten(CollectBlock(lines, i).body), 0, <<>>)]_vars

\* C2: in the finished Document of a file whose blocks all close, a field of
\* one declaration whose type is the name of another enum, struct or table
\* declared anywhere in the file has that name as its ref, whether the type
\* is declared before or after the field.
C2_RefIndependentOfOrder ==
    (pc = "done" /\ exists /\ \A j \in TopLevel(lines) :
            Class(lines[j + 1]) \in DeclClasses => BlockEnd(lines, j, 0) < Len(lines)) =>
        \A x \in 1..Len(data.structs \o data.tables) :
            LET decl == (data.structs \o data.tables)[x]
            IN \A y \in 1..Len(decl.v.fields) :
                   LET f == decl.v.fields[y].v
                   IN (f.type \in LocalTypes(data) \ FLATBUFFERS_BUILTINS /\ f.type # decl.k)
                          => f.ref = f.type

\* C3: a vector-bracketed field keeps its brackets in type and takes its ref
\* from the element type: [Bar] with Bar already declared has ref Bar, [int]
\* has no ref.
C3_VectorRef ==
    [][(StructDecl \/ TableDecl) =>
        LET fm == IF StructDecl THEN DictGet(data'.structs, HeaderName).fields
                  ELSE DictGet(data'.tables, HeaderName).fields
        IN \A y \in 1..Len(fm) :
               IsVector(fm[y].v.type) =>
                   fm[y].v.ref =
                       IF ElemType(fm[y].v.type) \in LocalTypes(data) \ FLATBUFFERS_BUILTINS
                       THEN ElemType(fm[y].v.type) ELSE None]_vars

\* A top-level line that is neither a comment, nor blank, nor a stray closing
\* brace, nor a declaration: a namespace, attribute, root_type or unrecognized line.
IsSeparator(ls, j) ==
    /\ j \in TopLevel(ls)
    /\ \/ Class(ls[j + 1]) \in {"namespace", "attribute", "root_type"}
       \/ Class(ls[j + 1]) = "skip" /\ ls[j + 1] # <<>> /\ ls[j + 1][1].t # "}"

\* The lines before cursor j that follow the last separator or declaration.
AdjacentLines(ls, j) ==
    {k \in 0..(j - 1) :
        \A m \in k..(j - 1) :
            ~IsSeparator(ls, m) /\ ~(m \in TopLevel(ls) /\ Class(ls[m + 1]) \in DeclClasses)}

\* C4: the doc stored with a declaration holds only text of the comment lines
\* that immediately precede it, none from before a namespace, attribute,
\* root_type or unrecognized line; and storing a declaration empties the buffer.
C4_DocOnlyFromAdjacentComment ==
    [][DeclStep =>
        LET doc == IF EnumDecl THEN DictGet(data'.enums, HeaderName).doc
                   ELSE IF UnionDecl THEN DictGet(data'.unions, HeaderName).doc
                   ELSE IF StructDecl THEN DictGet(data'.structs, HeaderName).doc
                   ELSE DictGet(data'.tables, HeaderName).doc
        IN /\ \A y \in 1..Len(doc) :
                  \E k \in AdjacentLines(lines, i) :
                      /\ lines[k + 1] # <<>>
                      /\ \/ doc[y] = Tail(lines[k + 1])
                         \/ doc[y] = StripMarkers(lines[k + 1])
           /\ current_doc' = <<>>]_vars

\* C5: when the lines run out before the brace depth of an opened block is
\* back at zero, the parse ends in an error and returns no Document.
C5_TruncatedBlockRaises ==
    [][(pc = "scan" /\ i < Len(lines) /\ Class(lines[i + 1]) \in DeclClasses
        /\ BlockEnd(lines, i, 0) >= Len(lines)) => pc' = "error"]_vars

\* C6: parsing a path that does not exist never raises, leaves the Document
\* as constructed (nothing set, every collection empty) and never opens the file.
C6_MissingFileEmptyDocument ==
    ~exists => /\ pc \in {"start", "done"}
               /\ data = EmptyData
               /\ opened = FALSE

C6_Witness == ~exists /\ pc = "done"

\* C7: no field whose type is a builtin type name has a ref, also when the
\* file declares an enum, struct or table under a builtin name.
C7_BuiltinNeverRef ==
    \A f \in AllFields(data) : f.type \in FLATBUFFERS_BUILTINS => f.ref = None

---------------------------------------------------------------------------
(* C9, C10 *)

NoDup(q) == \A x, y \in 1..Len(q) : q[x] = q[y] => x = y
TokNames(toks) == [x \in 1..Len(toks) |-> toks[x].n]

\* The block opened at cursor j closes: its depth is back at zero on some line.
Closes(ls, j) == BlockEnd(ls, j, 0) < Len(ls)

\* A body that holds field declarations and nothing else.
OnlyFields(body) == \A x \in 1..Len(body) : \A y \in 1..Len(body[x]) : body[x][y].t = "field"

\* C9: when the fields of a struct or table, or the enumerators of an enum,
\* have pairwise distinct names, the stored map lists every one of them once,
\* in the order of the source.
C9_DeclarationOrder ==
    [][/\ ((StructDecl \/ TableDecl) /\ Closes(lines, i)
              /\ OnlyFields(CollectBlock(lines, i).body)
              /\ NoDup(TokNames(Flatten(CollectBlock(lines, i).body))))
          => LET fm == IF StructDecl THEN DictGet(data'.structs, HeaderName).fields
                       ELSE DictGet(data'.tables, HeaderName).fields
             IN Keys(fm) = TokNames(Flatten(CollectBlock(lines, i).body))
       /\ (EnumDecl /\ NoDup(TokNames(Flatten(CollectBlock(lines, i).body))))
          => Keys(DictGet(data'.enums, HeaderName).values)
                 = TokNames(Flatten(CollectBlock(lines, i).body))]_vars

LastOf(S) == CHOOSE j \in S : \A k \in S : k <= j
FirstOf(S) == CHOOSE j \in S : \A k \in S : j <= k
DeclsNamed(top, ls, c, n) == {j \in TopOf(top, ls, c) : ls[j + 1][1].n = n}
NamesOf(top, ls, c) == {ls[j + 1][1].n : j \in TopOf(top, ls, c)}

\* What a declaration says, apart from the doc and the refs its context adds.
FieldSig(fm) ==
    [x \in 1..Len(fm) |-> <<fm[x].k, fm[x].v.type, fm[x].v.default, fm[x].v.metadata>>]
EnumContent(ls, j) ==
    <<ls[j + 1][1].a, ParseEnumValues(CollectBlock(ls, j).body).values>>
UnionContent(ls, j) == UnionTypes(CollectBlock(ls, j).body)
FieldsContent(ls, j) == FieldSig(ParseFields(CollectBlock(ls, j).body, EmptyData))

\* The top-level attribute lines from cursor j on, in source order.
RECURSIVE AttributesFrom(_, _, _)
AttributesFrom(top, ls, j) ==
    IF j >= Len(ls) THEN <<>>
    ELSE (IF j \in TopOf(top, ls, "attribute") THEN <<ls[j + 1][1].n>> ELSE <<>>)
         \o AttributesFrom(top, ls, j + 1)

LastValue(top, ls, c) ==
    IF TopOf(top, ls, c) = {} THEN None ELSE ls[LastOf(TopOf(top, ls, c)) + 1][1].n

AllClosed(top, ls) ==
    \A j \in top : Class(ls[j + 1]) \in DeclClasses => Closes(ls, j)

\* What can make a parse raise: an enumerator value that is no integer, or a
\* block comment that is not closed.
CanRaise(ls) ==
    \E x \in 1..Len(ls) : \E y \in 1..Len(ls[x]) :
        \/ ls[x][y].t = "bco"
        \/ ls[x][y].t = "item" /\ ls[x][y].a = "=" /\ ~IsInt(ls[x][y].b)

\* C10: redeclaration raises nothing and the last declaration wins: in a
\* file whose blocks all close, each category holds one entry per declared
\* name, with the content of the last declaration of that name; namespace and
\* root_type hold the last value given; attributes keep every occurrence in
\* source order.
C10_LastDeclarationWins ==
    LET top == TopLevel(lines)
    IN
    /\ pc = "error" => CanRaise(lines)
    /\ (pc = "done" /\ exists /\ AllClosed(top, lines)) =>
        /\ NoDup(Keys(data.enums)) /\ KeySet(data.enums) = NamesOf(top, lines, "enum")
        /\ \A n \in NamesOf(top, lines, "enum") :
               <<DictGet(data.enums, n).base_type, DictGet(data.enums, n).values>>
                   = EnumContent(lines, LastOf(DeclsNamed(top, lines, "enum", n)))
        /\ NoDup(Keys(data.unions)) /\ KeySet(data.unions) = NamesOf(top, lines, "union")
        /\ \A n \in NamesOf(top, lines, "union") :
               DictGet(data.unions, n).types
                   = UnionContent(lines, LastOf(DeclsNamed(top, lines, "union", n)))
        /\ NoDup(Keys(data.structs)) /\ KeySet(data.structs) = NamesOf(top, lines, "struct")
        /\ \A n \in NamesOf(top, lines, "struct") :
               FieldSig(DictGet(data.structs, n).fields)
                   = FieldsContent(lines, LastOf(DeclsNamed(top, lines, "struct", n)))
        /\ NoDup(Keys(data.tables)) /\ KeySet(data.tables) = NamesOf(top, lines, "table")
        /\ \A n \in NamesOf(top, lines, "table") :
               FieldSig(DictGet(data.tables, n).fields)
                   = FieldsContent(lines, LastOf(DeclsNamed(top, lines, "table", n)))
        /\ data.namespace = LastValue(top, lines, "namespace")
        /\ data.root_type = LastValue(top, lines, "root_type")
        /\ data.attributes = AttributesFrom(top, lines, 0)

\* A finished parse of a file that declares one table twice, differently.
C10_Witness ==
    LET top == TopLevel(lines)
    IN
    /\ pc = "done" /\ exists /\ AllClosed(top, lines)
    /\ \E n \in NamesOf(top, lines, "table") :
           /\ Cardinality(DeclsNamed(top, lines, "table", n)) >= 2
           /\ FieldsContent(lines, FirstOf(DeclsNamed(top, lines, "table", n)))
                  # FieldsContent(lines, LastOf(DeclsNamed(top, lines, "table", n)))

---------------------------------------------------------------------------
(* generate_all *)

MaxFiles == 2

\* The schema a message payload of an AsyncAPI file names: none, a path that
\* does not exist, or a schema file.
NoSchema == [kind |-> "none", lines |-> <<>>]
MissingSchema == [kind |-> "missing", lines |-> <<>>]
SchemaFile(ls) == [kind |-> "file", lines |-> ls]
Schemas ==
    { NoSchema, MissingSchema,
      SchemaFile(<<TableBarX>>),
      SchemaFile(<<EnumBad>>),
      SchemaFile(<<TableBarX, <<Bco, Txt("c2")>>>>) }

\* An AsyncAPI input file: its base name, the step of its processing that
\* fails by itself ("load": AsyncAPIParser cannot read it, "validate": a
\* required field is missing, "write": the output file cannot be written,
\* "none"), and the schema it names.
AsyncFiles ==
    [name : {"a", "b"}, fault : {"none", "load", "validate", "write"}, schema : Schemas]

\* FBSParser(fbs_file) raises.
SchemaRaises(sch) == sch.kind = "file" /\ ParseExisting(sch.lines).pc = "error"

\* The body of the try block raises an Exception for file f.
Raises(f) ==
    \/ f.fault = "load"
    \/ f.fault = "validate"
    \/ SchemaRaises(f.schema)
    \/ f.fault = "write"

ScanIdle ==
    /\ exists = FALSE
    /\ opened = FALSE
    /\ lines = <<>>
    /\ i = 0
    /\ current_doc = <<>>
    /\ data = EmptyData
    /\ pc = "idle"
    /\ iters = 0

InitBatch ==
    /\ ScanIdle
    /\ asyncapi_files \in SeqsUpTo(AsyncFiles, MaxFiles)
    /\ fidx = 0
    /\ generated_files = <<>>
    /\ failed = <<>>
    /\ index_written = FALSE
    /\ bpc = "start"

\* if not asyncapi_files: warn and return
BatchEmpty ==
    /\ bpc = "start" /\ asyncapi_files = <<>>
    /\ bpc' = "returned"
    /\ UNCHANGED <<asyncapi_files, fidx, generated_files, failed, index_written>>
    /\ UNCHANGED scanVars

\* generated_files = []
BatchBegin ==
    /\ bpc = "start" /\ asyncapi_files # <<>>
    /\ generated_files' = <<>> /\ fidx' = 0 /\ bpc' = "loop"
    /\ UNCHANGED <<asyncapi_files, failed, index_written>>
    /\ UNCHANGED scanVars

\* One iteration whose try block runs to its end.
ProcessFileOk ==
    /\ bpc = "loop" /\ fidx < Len(asyncapi_files)
    /\ ~Raises(asyncapi_files[fidx + 1])
    /\ generated_files' = Append(generated_files, asyncapi_files[fidx + 1].name)
    /\ fidx' = fidx + 1
    /\ UNCHANGED <<asyncapi_files, failed, index_written, bpc>>
    /\ UNCHANGED scanVars

\* A mutant: the exception leaves generate_all.
ProcessFileFailsPropagates ==
    /\ bpc = "loop" /\ fidx < Len(asyncapi_files)
    /\ Raises(asyncapi_files[fidx + 1])
    /\ bpc' = "raised"
    /\ UNCHANGED <<asyncapi_files, fidx, generated_files, failed, index_written>>
    /\ UNCHANGED scanVars

\* One iteration whose try block raises: except Exception logs the error.
ProcessFileFails ==
    /\ bpc = "loop" /\ fidx < Len(asyncapi_files)
    /\ Raises(asyncapi_files[fidx + 1])
    /\ failed' = Append(failed, fidx)
    /\ fidx' = fidx + 1
    /\ UNCHANGED <<asyncapi_files, generated_files, index_written, bpc>>
    /\ UNCHANGED scanVars

\* After the loop: index.html is written from generated_files.
WriteIndex ==
    /\ bpc = "loop" /\ fidx >= Len(asyncapi_files)
    /\ index_written' = TRUE
    /\ bpc' = "done"
    /\ UNCHANGED <<asyncapi_files, fidx, generated_files, failed>>
    /\ UNCHANGED scanVars

NextBatch ==
    \/ BatchEmpty
    \/ BatchBegin
    \/ ProcessFileOk
    \/ ProcessFileFails
    \/ WriteIndex

SpecBatch == InitBatch /\ [][NextBatch]_vars

---------------------------------------------------------------------------
(* C8 *)

\* The names of the files from index j on whose processing does not raise.
RECURSIVE Survivors(_, _)
Survivors(fs, j) ==
    IF j >= Len(fs) THEN <<>>
    ELSE (IF Raises(fs[j + 1]) THEN <<>> ELSE <<fs[j + 1].name>>) \o Survivors(fs, j + 1)

RECURSIVE Casualties(_, _)
Casualties(fs, j) ==
    IF j >= Len(fs) THEN <<>>
    ELSE (IF Raises(fs[j + 1]) THEN <<j>> ELSE <<>>) \o Casualties(fs, j + 1)

\* C8: a file whose processing raises, a parse failure of its schema file
\* included, does not abort the batch: its error is logged, it adds nothing
\* to the generated list, every other file is processed and the index is written.
C8_FailureDoesNotAbortBatch ==
    /\ bpc # "raised"
    /\ asyncapi_files # <<>> => bpc \in {"start", "loop", "done"}
    /\ bpc = "done" =>
        /\ index_written
        /\ fidx = Len(asyncapi_files)
        /\ generated_files = Survivors(asyncapi_files, 0)
        /\ failed = Casualties(asyncapi_files, 0)

\* A finished batch whose first file failed on the parse of its schema file
\* and whose second file was generated.
C8_Witness ==
    /\ bpc = "done" /\ index_written
    /\ Len(asyncapi_files) = 2
    /\ asyncapi_files[1].fault = "none" /\ SchemaRaises(asyncapi_files[1].schema)
    /\ failed = <<0>>
    /\ generated_files = <<asyncapi_files[2].name>>

---------------------------------------------------------------------------
(* C11 *)

\* The fields of a body when its comments are taken as the top-level scan
\* takes them: a line that opens a block comment is consumed with the lines
\* after it through the first line that ends with the closing marker, and
\* the non-empty lines of the comment go to the doc buffer.  ok is FALSE when
\* a comment of the body never closes.
RECURSIVE FieldsByScanRule(_, _, _, _, _)
FieldsByScanRule(body, j, fields, doc, local_types) ==
    IF j >= Len(body) THEN [ok |-> TRUE, fields |-> fields]
    ELSE LET line == body[j + 1]
         IN IF line = <<>> THEN FieldsByScanRule(body, j + 1, fields, doc, local_types)
            ELSE IF line[1].t = "docm"
            THEN FieldsByScanRule(body, j + 1, fields, Append(doc, Tail(line)), local_types)
            ELSE IF line[1].t = "bco"
            THEN LET e == CommentEnd(body, j)
                     block == [x \in 1..(e - j + 1) |-> StripMarkers(body[j + x])]
                 IN IF e >= Len(body) THEN [ok |-> FALSE, fields |-> fields]
                    ELSE FieldsByScanRule(body, e + 1, fields,
                                          doc \o NonEmpty(block), local_types)
            ELSE IF line[1].t = "field"
            THEN FieldsByScanRule(body, j + 1,
                     DictSet(fields, line[1].n, FieldDef(line[1], doc, local_types)),
                     <<>>, local_types)
            ELSE FieldsByScanRule(body, j + 1, fields, doc, local_types)

\* C11: the fields stored for a struct or table whose block closes and whose
\* comments all close are the fields its body has when a block comment is
\* consumed through the line that ends with the closing marker: the lines
\* of the comment go to the doc of the next field and none of them is
\* recorded as a field.
C11_FieldCommentAsTopLevel ==
    [][((StructDecl \/ TableDecl) /\ Closes(lines, i)) =>
        LET body == CollectBlock(lines, i).body
            ref == FieldsByScanRule(body, 0, <<>>, <<>>, LocalTypes(data))
            fm == IF StructDecl THEN DictGet(data'.structs, HeaderName).fields
                  ELSE DictGet(data'.tables, HeaderName).fields
        IN ref.ok => fm = ref.fields]_vars

---------------------------------------------------------------------------
(* C12 *)

\* The running brace depth after line k of a block opened on line j: opening
\* braces minus closing braces, summed over the lines j .. k.
RECURSIVE DepthAt(_, _, _)
DepthAt(ls, j, k) ==
    IF k < j THEN 0 ELSE DepthAt(ls, j, k - 1) + BraceDelta(ls[k + 1])

\* The lines on which the depth of the block opened on line j is zero; the
\* braces of the block balance when there is one.
ZeroLines(ls, j) == {k \in j..(Len(ls) - 1) : DepthAt(ls, j, k) = 0}

\* C12: a declaration step on a block whose braces balance moves the cursor
\* to the line after the first line at which the running depth is zero, the
\* index the block extractor returns; no line after the header through that
\* line is ever classified by the top-level scan, and the line after it,
\* when the file has one, is classified.
C12_BlockExtent ==
    [][(DeclStep /\ ZeroLines(lines, i) # {}) =>
        LET e == FirstOf(ZeroLines(lines, i))
            top == TopLevel(lines)
        IN /\ CollectBlock(lines, i).offset = e + 1
           /\ i' = e + 1
           /\ pc' = "scan"
           /\ \A k \in (i + 1)..e : k \notin top
           /\ e + 1 < Len(lines) => (e + 1) \in top]_vars

\* The scan has just stepped over a balanced block of two or more lines, one
\* of which reads like a declaration, and stands on the line that follows it.
C12_Witness ==
    /\ pc = "scan" /\ 0 < i /\ i < Len(lines)
    /\ \E j \in TopLevel(lines) :
           /\ Class(lines[j + 1]) \in DeclClasses
           /\ ZeroLines(lines, j) # {}
           /\ FirstOf(ZeroLines(lines, j)) + 1 = i
           /\ i - j >= 2
           /\ \E k \in (j + 1)..(i - 1) : Class(lines[k + 1]) \in DeclClasses

---------------------------------------------------------------------------
(* C13 *)

\* The classes of line that the scan passes one line at a time.
PlainClasses == {"doc", "namespace", "attribute", "root_type", "skip"}

\* C13: every iteration of the scan that completes moves the cursor forward:
\* by one on a plain line, to the line after the first line from the cursor
\* on that ends with the closing marker on a block comment, and to the index
\* the block extractor returns, beyond the header, on a declaration; the
\* iterations entered never outnumber the lines of the file; and the parse
\* ends: it returns, or raises on a file that holds something that can raise.
C13_ScanTerminates ==
    /\ [][(pc = "scan" /\ i < Len(lines) /\ pc' = "scan") =>
            LET c == Class(lines[i + 1])
            IN /\ i' > i
               /\ iters' = iters + 1
               /\ c \in PlainClasses => i' = i + 1
               /\ c = "comment" =>
                      /\ EndsClose(lines[i'])
                      /\ \A k \in (i + 1)..(i' - 1) : ~EndsClose(lines[k])
               /\ c \in DeclClasses => i' = CollectBlock(lines, i).offset]_vars
    /\ [](iters <= Len(lines))
    /\ <>(pc = "done" \/ (pc = "error" /\ CanRaise(lines)))

\* A finished parse of a file of three or more lines that took two or more
\* iterations, one of them over several lines.
C13_Witness ==
    /\ pc = "done" /\ exists
    /\ Len(lines) >= 3
    /\ iters >= 2 /\ iters < Len(lines)

====
